---------------------------- MODULE Spec2Model ----------------------------
(***************************************************************************)
(* Backup, rotation, restore and bootstrap of the Breaktime database.      *)
(*                                                                         *)
(*   src/database/backup.py            create_backup, create_sql_dump,     *)
(*                                     rotate_backups, list_backups,       *)
(*                                     restore_backup, run_daily_backup    *)
(*   src/database/restore_on_empty.py  check_database_empty,               *)
(*                                     restore_from_backup,                *)
(*                                     run_restore_if_needed               *)
(*                                                                         *)
(* The file system is modelled by what the code can observe of it: the     *)
(* live database file (db), the backup directory (dir: file name -> data   *)
(* and modification time) and the seed export (seed).  The clock is read   *)
(* in whole seconds, as strftime('%Y%m%d_%H%M%S') does; a file's           *)
(* modification time is the clock reading of the call that wrote it, so    *)
(* two files written within the same second carry equal modification       *)
(* times and os.listdir decides their order.                               *)
(***************************************************************************)
EXTENDS Integers, Sequences, FiniteSets, TLC

VARIABLES
    now,     \* the last clock reading (seconds)
    db,      \* content of DATABASE_PATH, NoFile when the file is absent
    dir,     \* BACKUP_DIR: a function from the names of its files to files
    seed,    \* content of BACKUP_SQL_PATH, NoFile when absent
    last,    \* what the most recent call returned
    hist,    \* how the calls made so far are composed (history)
    faults,  \* the number of calls in which a step raised for an outside reason
    pc,      \* position of the create_backup that runs beside a writer
    snap,    \* the read transaction that create_backup holds on the source
    copied,  \* pages of the backup file written so far
    seen     \* the committed states the live database went through during the call

vars == <<now, db, dir, seed, last, hist, faults, pc, snap, copied, seen>>

-----------------------------------------------------------------------------
(* Bounds of the model *)

\* the clock readings the calls can get are 0..MaxTime
MaxTime == 0
\* break_logs holds 0..MaxRows rows
MaxRows == 1
\* the snapshots the directory can hold before the first clock reading
MaxInit == 9
\* the create_backup calls counted after them (hist)
MaxCalls == 3
\* the calls in which a step may raise for an outside reason
MaxFaults == 1
\* the pages of a database file
MaxPages == 2

(* Program constants *)

MAX_BACKUPS == 7

Min(a, b) == IF a < b THEN a ELSE b

-----------------------------------------------------------------------------
(* File contents *)

NoFile == [fmt |-> "none"]
\* a file that an interrupted or foreign write left: no reader accepts it
Torn == [fmt |-> "torn"]
\* an SQLite database file; schema: break_logs exists; rows: its row count
DbImage(s, r) == [fmt |-> "sqlite", schema |-> s, rows |-> r]
\* the zero-byte file sqlite3.connect creates for a path that does not exist
Blank == DbImage(FALSE, 0)
\* gzip.open(path, 'wb') + shutil.copyfileobj
Gzip(d) == [fmt |-> "gz", of |-> d]
\* gzip.open(path, 'rb') + shutil.copyfileobj; readable only for gzip data
CanGunzip(d) == d.fmt = "gz"
Gunzip(d) == d.of
\* conn.iterdump() written line by line
SqlText(d) == [fmt |-> "sql", schema |-> d.schema, rows |-> d.rows]
\* conn.executescript(sql_script) on a fresh database
ExecuteScript(s) == DbImage(s.schema, s.rows)
\* sqlite3 can read the file as a database
IsDatabase(d) == d.fmt = "sqlite"

Contents == {DbImage(TRUE, r) : r \in 0..MaxRows}

-----------------------------------------------------------------------------
(* File names of the backup directory *)

NoName == [kind |-> "none", ts |-> 0]
\* f"breaktime_backup_{date_str}.db"
get_backup_filename(t) == [kind |-> "db", ts |-> t]
\* backup_path + '.gz'
AddGz(n) == [kind |-> "gz", ts |-> n.ts]
\* f"breaktime_dump_{date_str}.sql"
DumpName(t) == [kind |-> "sql", ts |-> t]
\* backup_filename.endswith('.gz')
EndsWithGz(n) == n.kind = "gz"
\* backup_path[:-3]
StripGz(n) == [kind |-> "db", ts |-> n.ts]
\* a filter on the prefix 'breaktime_' alone
HasBackupPrefix(n) == n.kind \in {"db", "gz", "sql"}
\* line 163: f.startswith('breaktime_backup_') and
\* (f.endswith('.db') or f.endswith('.db.gz'))
IsBinarySnapshot(n) == n.kind \in {"db", "gz"}

Times == (0 - MaxInit)..MaxTime
Names == [kind : {"db", "gz", "sql"}, ts : Times]

File(d, t) == [data |-> d, mtime |-> t]
Exists(d, n) == n \in DOMAIN d
WriteFile(d, n, data, t) == [m \in DOMAIN d \cup {n} |-> IF m = n THEN File(data, t) ELSE d[m]]
RemoveFile(d, n) == [m \in DOMAIN d \ {n} |-> d[m]]
\* sqlite3.connect(path): a path that does not exist becomes a zero-byte file
Connect(d, n, t) == IF Exists(d, n) THEN d ELSE WriteFile(d, n, Blank, t)
BinarySnapshots(d) == {n \in DOMAIN d : IsBinarySnapshot(n)}
SqlDumps(d) == {n \in DOMAIN d : n.kind = "sql"}


-----------------------------------------------------------------------------
(* What a call returns.  One record shape for every call; a call fills the   *)
(* fields of its own result dict and leaves the others at their defaults.    *)
(* error is "none", "not_found" (the message of lines 51, 114, 247) or       *)
(* "exception" (str(e) of an except clause).                                 *)

Result(op) ==
    [op |-> op, ok |-> FALSE, error |-> "none", filename |-> NoName, arg |-> NoName,
     compress |-> FALSE, total |-> 0, kept |-> 0, removed |-> <<>>,
     attempted |-> <<>>, rotation |-> FALSE, pre |-> NoName, judged |-> FALSE,
     backups |-> <<>>]

Range(s) == {s[i] : i \in 1..Len(s)}

-----------------------------------------------------------------------------
(* create_backup(compress), lines 35-99.  live: the live database file;     *)
(* t: the clock reading of line 54; fault: the step that raises             *)
(* ("none", "copy": line 62, "compress": lines 73-75).  Returns the backup  *)
(* directory after the call with the result dict's success and filename.    *)

\* lines 58-65: source_conn.backup(backup_conn) copies every page of the
\* source inside one read transaction
OnlineBackup(source) == source

\* a call that goes on without looking for the live database file
SourceNeverMissing(live) == FALSE

\* lines 48 and 111: not os.path.exists(DATABASE_PATH)
SourceMissing(live) == live = NoFile

\* the uncompressed copy removed before the compression has finished
CompressionFailedCopyGone(copiedDir, backup_filename, t) ==
    RemoveFile(WriteFile(copiedDir, AddGz(backup_filename), Torn, t), backup_filename)

\* lines 72-75 raise: gzip.open(compressed_path, 'wb') has created the .gz
\* file, and the os.remove of line 78 is not reached
CompressionFailed(copiedDir, backup_filename, t) ==
    WriteFile(copiedDir, AddGz(backup_filename), Torn, t)

\* a compression failure caught on its own: the uncompressed copy is the backup
CompressionRaisedCopyReturned(d, backup_filename) ==
    [dir |-> d, ok |-> TRUE, error |-> "none", filename |-> backup_filename]

\* lines 94-99: the exception of lines 72-75 reaches the except clause of the
\* whole function, whose result has 'success': False and 'error' only
CompressionRaised(d, backup_filename) ==
    [dir |-> d, ok |-> FALSE, error |-> "exception", filename |-> NoName]

create_backup(d, live, compress, t, fault) ==
    LET backup_filename == get_backup_filename(t)
        compressed_name == AddGz(backup_filename)
        copy_raises     == fault = "copy" \/ ~IsDatabase(live)
        opened          == Connect(d, backup_filename, t)
        copiedDir       == WriteFile(d, backup_filename, OnlineBackup(live), t)
    IN  IF SourceMissing(live)
        THEN [dir |-> d, ok |-> FALSE, error |-> "not_found", filename |-> NoName]
        ELSE IF copy_raises
        THEN [dir |-> opened, ok |-> FALSE, error |-> "exception", filename |-> NoName]
        ELSE IF ~compress
        THEN [dir |-> copiedDir, ok |-> TRUE, error |-> "none",
              filename |-> backup_filename]
        ELSE IF fault = "compress"
        THEN CompressionRaised(CompressionFailed(copiedDir, backup_filename, t),
                               backup_filename)
        ELSE [dir |-> RemoveFile(WriteFile(copiedDir, compressed_name,
                                           Gzip(copiedDir[backup_filename].data), t),
                                 backup_filename),
              ok |-> TRUE, error |-> "none", filename |-> compressed_name]

CreateFaults == {"none", "copy", "compress"}

-----------------------------------------------------------------------------
(* create_sql_dump(), lines 101-148.  fault: "none" or "dump" (lines 124-126) *)

create_sql_dump(d, live, t, fault) ==
    LET dump_filename == DumpName(t)
    IN  IF SourceMissing(live)
        THEN [dir |-> d, ok |-> FALSE, error |-> "not_found", filename |-> NoName]
        ELSE IF fault = "dump" \/ ~IsDatabase(live)
        THEN \* open(dump_path, 'w') has truncated the file; the loop raised
             [dir |-> WriteFile(d, dump_filename, Torn, t),
              ok |-> FALSE, error |-> "exception", filename |-> NoName]
        ELSE [dir |-> WriteFile(d, dump_filename, SqlText(live), t),
              ok |-> TRUE, error |-> "none", filename |-> dump_filename]

DumpFaults == {"none", "dump"}

-----------------------------------------------------------------------------
(* rotate_backups(), lines 150-195 *)

\* sorted(key=mtime) without reverse=True
RECURSIVE OldestFirst(_, _)
OldestFirst(d, S) ==
    IF S = {} THEN {<<>>}
    ELSE UNION { {<<n>> \o rest : rest \in OldestFirst(d, S \ {n})}
                 : n \in {m \in S : \A o \in S : d[m].mtime <= d[o].mtime} }

\* line 172: every order sort(key=mtime, reverse=True) can give to the names
\* of S; the sort is stable, so equal mtimes keep the order os.listdir gave
RECURSIVE NewestFirst(_, _)
NewestFirst(d, S) ==
    IF S = {} THEN {<<>>}
    ELSE UNION { {<<n>> \o rest : rest \in NewestFirst(d, S \ {n})}
                 : n \in {m \in S : \A o \in S : d[o].mtime <= d[m].mtime} }

\* lines 176-177: backup_files[MAX_BACKUPS:] when there are more than MAX_BACKUPS
Excess(backup_files) ==
    IF Len(backup_files) > MAX_BACKUPS
    THEN SubSeq(backup_files, MAX_BACKUPS + 1, Len(backup_files))
    ELSE <<>>

RECURSIVE RemoveAll(_, _)
RemoveAll(d, names) ==
    IF names = <<>> THEN d ELSE RemoveAll(RemoveFile(d, Head(names)), Tail(names))

\* a loop that ends after its first os.remove
rotate_backups_once(d, backup_files, failAt) ==
    LET excess  == Excess(backup_files)
        removed == IF failAt = 0 THEN SubSeq(excess, 1, Min(1, Len(excess)))
                   ELSE SubSeq(excess, 1, failAt - 1)
        tried   == IF failAt = 0 THEN removed ELSE SubSeq(excess, 1, failAt)
    IN  [dir       |-> RemoveAll(d, removed),
         ok        |-> failAt = 0,
         error     |-> IF failAt = 0 THEN "none" ELSE "exception",
         total     |-> IF failAt = 0 THEN Len(backup_files) ELSE 0,
         kept      |-> IF failAt = 0 THEN Min(Len(backup_files), MAX_BACKUPS) ELSE 0,
         removed   |-> IF failAt = 0 THEN removed ELSE <<>>,
         attempted |-> tried]

\* lines 174-195: failAt = 0: every os.remove succeeds; failAt = k: the k-th
\* os.remove of the loop raises, which ends the loop in the except clause
rotate_backups(d, backup_files, failAt) ==
    LET excess  == Excess(backup_files)
        removed == IF failAt = 0 THEN excess ELSE SubSeq(excess, 1, failAt - 1)
        tried   == IF failAt = 0 THEN excess ELSE SubSeq(excess, 1, failAt)
    IN  [dir       |-> RemoveAll(d, removed),
         ok        |-> failAt = 0,
         error     |-> IF failAt = 0 THEN "none" ELSE "exception",
         total     |-> IF failAt = 0 THEN Len(backup_files) ELSE 0,
         kept      |-> IF failAt = 0 THEN Min(Len(backup_files), MAX_BACKUPS) ELSE 0,
         removed   |-> IF failAt = 0 THEN removed ELSE <<>>,
         attempted |-> tried]

-----------------------------------------------------------------------------
(* restore_backup(backup_filename), lines 231-293.  fault: "none", a fault  *)
(* of the pre-restore create_backup ("copy", "compress"), "decompress"      *)
(* (lines 258-260) or "apply" (line 271).  Returns the backup directory and *)
(* the live database after the call with the result dict's fields.          *)

\* a safety snapshot taken after the copy into the live database
SafetySnapshotAfterApply(d, live, backup_filename) ==
    IF CanGunzip(d[backup_filename].data) THEN Gunzip(d[backup_filename].data)
    ELSE d[backup_filename].data

\* line 251 runs before lines 268-271: create_backup reads the live database
\* as it is before the copy into it
SafetySnapshotSource(d, live, backup_filename) == live

\* a live database opened before the source is decompressed
LiveOpenedBeforeDecompression(live) == IF live = NoFile THEN Blank ELSE live

\* lines 256-260 precede line 269: when the decompression raises, the live
\* database has not been opened
LiveAtDecompression(live) == live

\* line 285: pre_restore.get('filename') if pre_restore['success'] else None
PreRestoreBackup(pre_restore) ==
    IF pre_restore.ok THEN pre_restore.filename ELSE NoName

Restored(d, live, backup_filename, t, fault) ==
    LET pre_restore == create_backup(d, SafetySnapshotSource(d, live, backup_filename),
                                     TRUE, t,
                                     IF fault \in {"copy", "compress"} THEN fault ELSE "none")
        d1          == pre_restore.dir
        gz          == EndsWithGz(backup_filename)
        temp_path   == StripGz(backup_filename)
        bad_gzip    == gz /\ ~CanGunzip(d1[backup_filename].data)
        \* open(temp_path, 'wb') truncates; a bad source leaves it empty, a
        \* failing write leaves it incomplete
        d2          == IF ~gz THEN d1
                       ELSE IF fault = "decompress" THEN WriteFile(d1, temp_path, Torn, t)
                       ELSE IF bad_gzip THEN WriteFile(d1, temp_path, Blank, t)
                       ELSE WriteFile(d1, temp_path, Gunzip(d1[backup_filename].data), t)
        restore_source == IF gz THEN temp_path ELSE backup_filename
        cleanup_temp   == gz
        \* lines 268-269: both connections create the file they do not find
        d3          == Connect(d2, restore_source, t)
        live1       == IF live = NoFile THEN Blank ELSE live
        apply_raises == \/ fault = "apply"
                        \/ ~IsDatabase(d3[restore_source].data)
                        \/ ~IsDatabase(live1)
        pre         == PreRestoreBackup(pre_restore)
    IN  IF gz /\ (fault = "decompress" \/ bad_gzip)
        THEN [dir |-> d2, db |-> LiveAtDecompression(live), ok |-> FALSE,
              error |-> "exception", pre |-> NoName]
        ELSE IF apply_raises
        THEN [dir |-> d3, db |-> live1, ok |-> FALSE, error |-> "exception", pre |-> NoName]
        ELSE [dir |-> IF cleanup_temp /\ Exists(d3, restore_source)
                      THEN RemoveFile(d3, restore_source) ELSE d3,
              db  |-> OnlineBackup(d3[restore_source].data),
              ok  |-> TRUE, error |-> "none", pre |-> pre]

\* the pre-restore snapshot taken before the existence check
restore_backup_unchecked(d, live, backup_filename, t, fault) ==
    IF ~Exists(d, backup_filename)
    THEN [dir |-> create_backup(d, live, TRUE, t, "none").dir, db |-> live,
          ok |-> FALSE, error |-> "not_found", pre |-> NoName]
    ELSE Restored(d, live, backup_filename, t, fault)

\* a failed pre-restore snapshot that ends the restore
restore_backup_strict(d, live, backup_filename, t, fault) ==
    LET pre_restore == create_backup(d, live, TRUE, t,
                                     IF fault \in {"copy", "compress"} THEN fault ELSE "none")
    IN  IF ~Exists(d, backup_filename)
        THEN [dir |-> d, db |-> live, ok |-> FALSE, error |-> "not_found", pre |-> NoName]
        ELSE IF ~pre_restore.ok
        THEN [dir |-> pre_restore.dir, db |-> live, ok |-> FALSE, error |-> "exception",
              pre |-> NoName]
        ELSE Restored(d, live, backup_filename, t, fault)

restore_backup(d, live, backup_filename, t, fault) ==
    IF ~Exists(d, backup_filename)
    THEN [dir |-> d, db |-> live, ok |-> FALSE, error |-> "not_found", pre |-> NoName]
    ELSE Restored(d, live, backup_filename, t, fault)

RestoreFaults == {"none", "copy", "compress", "decompress", "apply"}

-----------------------------------------------------------------------------
(* list_backups(), lines 197-229 *)

\* a listing that leaves the text dumps out
IsSqliteFile(n) == n.kind \in {"db", "gz"}

\* line 208: f.startswith('breaktime_') and
\* (f.endswith('.db') or f.endswith('.db.gz') or f.endswith('.sql'))
IsBackupFile(n) == n.kind \in {"db", "gz", "sql"}

\* lines 205-225: the file names of the records in the order of the list
\* returned, for the order backups gave to the files of equal 'created';
\* raised: os.listdir or os.stat raises, and line 229 returns []
list_backups(d, backups, raised) ==
    IF raised THEN <<>> ELSE backups

-----------------------------------------------------------------------------
(* restore_on_empty.py.  qerr: the row count query of line 31 raises for a   *)
(* reason outside the file (the database is locked, an I/O error);          *)
(* fault: "none" or "script" (executescript, line 69, raises).              *)

\* lines 20-38
check_database_empty(live, qerr) ==
    IF live = NoFile THEN TRUE
    ELSE IF qerr \/ ~IsDatabase(live) \/ ~live.schema THEN TRUE
    ELSE live.rows = 0

\* the live database removed before the seed export is looked for
restore_from_backup_remove_first(live, sd, fault) ==
    IF sd = NoFile
    THEN [db |-> NoFile, ok |-> FALSE]
    ELSE IF fault = "script" \/ sd.fmt # "sql"
    THEN [db |-> Blank, ok |-> FALSE]
    ELSE [db |-> ExecuteScript(sd), ok |-> ExecuteScript(sd).schema]

\* lines 40-85: the live database after the call, and the value returned
restore_from_backup(live, sd, fault) ==
    IF sd = NoFile
    THEN [db |-> live, ok |-> FALSE]
    ELSE IF fault = "script" \/ sd.fmt # "sql"
    THEN \* line 60 removed the file, line 68 created it anew, line 69 raised
         [db |-> Blank, ok |-> FALSE]
    ELSE IF ~ExecuteScript(sd).schema
    THEN \* the row count query of line 74 raises: no such table
         [db |-> ExecuteScript(sd), ok |-> FALSE]
    ELSE [db |-> ExecuteScript(sd), ok |-> TRUE]

\* lines 87-104
run_restore_if_needed(live, sd, qerr, fault) ==
    IF check_database_empty(live, qerr)
    THEN [db |-> restore_from_backup(live, sd, fault).db, judged |-> TRUE,
          ok |-> restore_from_backup(live, sd, fault).ok]
    ELSE [db |-> live, judged |-> FALSE, ok |-> FALSE]

BootFaults == {"none", "script"}

-----------------------------------------------------------------------------
(* The history the claims about sequences of calls refer to: the number of  *)
(* successful create_backup calls while nothing else has been called, then  *)
(* "rotated" after the one successful rotate_backups that follows them and  *)
(* "rotated_twice" after the successful rotate_backups that follows it.     *)

HistCreate(ok) ==
    IF hist.phase = "creates" /\ ok /\ hist.n < MaxInit + MaxCalls
    THEN [phase |-> "creates", n |-> hist.n + 1]
    ELSE [phase |-> "other", n |-> 0]
HistRotate(ok) ==
    IF hist.phase = "creates" /\ ok THEN [phase |-> "rotated", n |-> hist.n]
    ELSE IF hist.phase = "rotated" /\ ok THEN [phase |-> "rotated_twice", n |-> hist.n]
    ELSE [phase |-> "other", n |-> 0]
HistOther == [phase |-> "other", n |-> 0]

-----------------------------------------------------------------------------
(* The clock: a call reads the clock at or after the previous reading *)

Readings == {t \in now..(now + 1) : t <= MaxTime}

Idle == UNCHANGED <<pc, snap, copied, seen>>

\* a step of the call raises for a reason outside the program (disk full,
\* permission, I/O error): fault names the step, "none" or 0 for no such step
Inject(raised) ==
    IF raised THEN faults < MaxFaults /\ faults' = faults + 1 ELSE faults' = faults

\* no more files than this can be in excess of MAX_BACKUPS
MaxExcess == MaxInit + 2 * (MaxTime + 1)

-----------------------------------------------------------------------------
(* Actions of the backup module *)

CreateBackup(compress, t, fault) ==
    /\ Inject(fault # "none")
    /\ \E r \in {create_backup(dir, db, compress, t, fault)} :
          /\ now' = t
          /\ dir' = r.dir
          /\ last' = [Result("create_backup") EXCEPT
                          !.ok = r.ok, !.error = r.error, !.filename = r.filename,
                          !.compress = compress]
          /\ hist' = HistCreate(r.ok)
          /\ UNCHANGED <<db, seed>>
          /\ Idle

\* a dump that connects to the live database before it looks for its file
CreateSqlDumpConnectFirst(t, fault) ==
    /\ Inject(fault # "none")
    /\ \E r \in {create_sql_dump(dir, IF db = NoFile THEN Blank ELSE db, t, fault)} :
          /\ now' = t
          /\ dir' = r.dir
          /\ db' = IF db = NoFile THEN Blank ELSE db
          /\ last' = [Result("create_sql_dump") EXCEPT
                          !.ok = r.ok, !.error = r.error, !.filename = r.filename]
          /\ hist' = HistOther
          /\ UNCHANGED seed
          /\ Idle

CreateSqlDump(t, fault) ==
    /\ Inject(fault # "none")
    /\ \E r \in {create_sql_dump(dir, db, t, fault)} :
          /\ now' = t
          /\ dir' = r.dir
          /\ last' = [Result("create_sql_dump") EXCEPT
                          !.ok = r.ok, !.error = r.error, !.filename = r.filename]
          /\ hist' = HistOther
          /\ UNCHANGED <<db, seed>>
          /\ Idle

RotateBackups(backup_files, failAt) ==
    /\ Inject(failAt # 0)
    /\ \E r \in {rotate_backups(dir, backup_files, failAt)} :
          /\ dir' = r.dir
          /\ last' = [Result("rotate_backups") EXCEPT
                          !.ok = r.ok, !.error = r.error, !.rotation = r.ok,
                          !.total = r.total, !.kept = r.kept,
                          !.removed = r.removed, !.attempted = r.attempted]
          /\ hist' = HistRotate(r.ok)
          /\ UNCHANGED <<now, db, seed>>
          /\ Idle

\* the names restore_backup is called with: the names the calls of the
\* model's clock readings give, and the newest of the earlier snapshots
RestoreArgs == {n \in Names : n.ts >= 0} \cup {AddGz(get_backup_filename(0 - 1))}

RestoreBackup(backup_filename, t, fault) ==
    /\ Inject(fault # "none")
    /\ \E r \in {restore_backup(dir, db, backup_filename, t, fault)} :
          /\ now' = t
          /\ dir' = r.dir
          /\ db' = r.db
          /\ last' = [Result("restore_backup") EXCEPT
                          !.ok = r.ok, !.error = r.error, !.arg = backup_filename,
                          !.pre = r.pre]
          /\ hist' = HistOther
          /\ UNCHANGED seed
          /\ Idle

\* a rotation that ran on the directory as it was before the snapshot
DirBeforeSnapshot(d, backup_result) == d

\* lines 306-309: rotate_backups() is called after create_backup() returned,
\* so os.listdir sees the directory the snapshot attempt left
DirAfterSnapshot(d, backup_result) == backup_result.dir

\* run_daily_backup(), lines 295-315: the snapshot, then the rotation of
\* the directory the snapshot left, whatever the snapshot's result
RunDailyBackup(t, fault, failAt) ==
    /\ Inject(fault # "none" \/ failAt # 0)
    /\ \E backup_result \in {create_backup(dir, db, TRUE, t, fault)} :
       \E listed \in {DirAfterSnapshot(dir, backup_result)} :
       \E backup_files \in NewestFirst(listed, BinarySnapshots(listed)) :
          /\ failAt <= Len(Excess(backup_files))
          /\ \E rotation_result \in {rotate_backups(listed, backup_files, failAt)} :
                /\ now' = t
                /\ dir' = rotation_result.dir
                /\ last' = [Result("run_daily_backup") EXCEPT
                                !.ok = backup_result.ok,
                                !.error = backup_result.error,
                                !.filename = backup_result.filename,
                                !.compress = TRUE,
                                !.rotation = rotation_result.ok,
                                !.total = rotation_result.total,
                                !.kept = rotation_result.kept,
                                !.removed = rotation_result.removed,
                                !.attempted = rotation_result.attempted]
                /\ hist' = HistOther
                /\ UNCHANGED <<db, seed>>
                /\ Idle

\* list_backups(): 'created' is st_mtime, and sort(reverse=True) orders by it
ListBackups(backups, raised) ==
    /\ Inject(raised)
    /\ last' = [Result("list_backups") EXCEPT
                    !.ok = TRUE,
                    !.error = IF raised THEN "exception" ELSE "none",
                    !.backups = list_backups(dir, backups, raised)]
    /\ UNCHANGED <<now, db, dir, seed, hist>>
    /\ Idle

\* the application commits a change to the live database between two calls
WriteDb(c) ==
    /\ db # Torn
    /\ db # c
    /\ db' = c
    /\ last' = Result("write")
    /\ UNCHANGED <<now, dir, seed, hist, faults>>
    /\ Idle

-----------------------------------------------------------------------------
(* Initial states: an empty backup directory, or one that holds MaxInit     *)
(* compressed snapshots taken one per day before the clock readings the     *)
(* model follows; the live database file is there or is absent.             *)

DailyName(k) == AddGz(get_backup_filename(0 - k))

InitDir(n0) ==
    [n \in {DailyName(k) : k \in 1..n0} |-> File(Gzip(DbImage(TRUE, 0)), n.ts)]

Init ==
    /\ now = 0
    /\ \E n0 \in {0, MaxInit} :
          /\ dir = InitDir(n0)
          /\ hist = [phase |-> "creates", n |-> n0]
          /\ db \in {NoFile, DbImage(TRUE, 0)}
    /\ seed = NoFile
    /\ last = Result("init")
    /\ faults = 0
    /\ pc = "idle"
    /\ snap = NoFile
    /\ copied = <<>>
    /\ seen = {}

Next ==
    \/ \E compress \in BOOLEAN, t \in Readings, fault \in CreateFaults :
          CreateBackup(compress, t, fault)
    \/ \E t \in Readings, fault \in DumpFaults : CreateSqlDump(t, fault)
    \/ \E backup_files \in NewestFirst(dir, BinarySnapshots(dir)) :
          \E failAt \in 0..Len(Excess(backup_files)) :
             RotateBackups(backup_files, failAt)
    \/ \E backup_filename \in RestoreArgs, t \in Readings, fault \in RestoreFaults :
          RestoreBackup(backup_filename, t, fault)
    \/ \E t \in Readings, fault \in CreateFaults, failAt \in 0..MaxExcess :
          RunDailyBackup(t, fault, failAt)
    \/ \E c \in Contents : WriteDb(c)

Spec == Init /\ [][Next]_vars

\* list_backups among the calls that write files into the backup directory
NextList ==
    \/ \E compress \in BOOLEAN, t \in Readings, fault \in CreateFaults :
          CreateBackup(compress, t, fault)
    \/ \E t \in Readings, fault \in DumpFaults : CreateSqlDump(t, fault)
    \/ \E backup_filename \in RestoreArgs, t \in Readings, fault \in RestoreFaults :
          RestoreBackup(backup_filename, t, fault)
    \/ \E c \in Contents : WriteDb(c)
    \/ \E backups \in NewestFirst(dir, {n \in DOMAIN dir : IsBackupFile(n)}) :
          \E raised \in BOOLEAN : ListBackups(backups, raised)

SpecList == Init /\ [][NextList]_vars

-----------------------------------------------------------------------------
(* The bootstrap guard, restore_on_empty.py, on its own: the live database  *)
(* and the seed export.  Here hist counts the calls of run_restore_if_needed *)
(* that the running process has made.                                       *)

RunRestoreIfNeeded(qerr, fault) ==
    /\ hist.n < MaxCalls
    /\ Inject(qerr \/ fault # "none")
    /\ \E r \in {run_restore_if_needed(db, seed, qerr, fault)} :
          /\ db' = r.db
          /\ last' = [Result("run_restore_if_needed") EXCEPT
                          !.judged = r.judged, !.ok = r.ok]
          /\ hist' = [phase |-> "process", n |-> hist.n + 1]
          /\ UNCHANGED <<now, dir, seed>>
          /\ Idle

\* the process ends and a new one starts
Restart ==
    /\ hist.n > 0
    /\ hist' = [phase |-> "process", n |-> 0]
    /\ last' = Result("restart")
    /\ UNCHANGED <<now, db, dir, seed, faults>>
    /\ Idle

\* the live database file is damaged from outside the program
DamageDb ==
    /\ db \notin {NoFile, Torn}
    /\ Inject(TRUE)
    /\ db' = Torn
    /\ last' = Result("damage")
    /\ UNCHANGED <<now, dir, seed, hist>>
    /\ Idle

\* the data volume is replaced by an empty one
WipeDb ==
    /\ db # NoFile
    /\ db' = NoFile
    /\ last' = Result("wipe")
    /\ UNCHANGED <<now, dir, seed, hist, faults>>
    /\ Idle

Seeds == {NoFile, Torn} \cup {SqlText(c) : c \in Contents \cup {Blank}}

InitBoot ==
    /\ now = 0
    /\ dir = InitDir(0)
    /\ hist = [phase |-> "process", n |-> 0]
    /\ db = NoFile
    /\ seed \in Seeds
    /\ last = Result("init")
    /\ faults = 0
    /\ pc = "idle"
    /\ snap = NoFile
    /\ copied = <<>>
    /\ seen = {}

NextBoot ==
    \/ \E qerr \in BOOLEAN, fault \in BootFaults : RunRestoreIfNeeded(qerr, fault)
    \/ \E c \in Contents : WriteDb(c)
    \/ DamageDb
    \/ WipeDb
    \/ Restart

SpecBoot == InitBoot /\ [][NextBoot]_vars

-----------------------------------------------------------------------------
(* create_backup beside another process that commits to the live database.  *)
(* Lines 59-65 in steps: the backup opens a read transaction on the source  *)
(* and copies its pages one by one; the writer may commit at any moment.    *)

Page(image, i) == [of |-> image, no |-> i]

\* a page read from the file as it is now, outside any transaction
PageReadRaw(transaction, file, i) == Page(file, i)

\* line 62: a page read inside the backup's read transaction
PageRead(transaction, file, i) == Page(transaction, i)

\* the file the copied pages make: a database when they all belong to one
\* committed state, else a file that mixes two
Assemble(pages) ==
    IF \E c \in Contents : \A i \in 1..Len(pages) : pages[i] = Page(c, i)
    THEN (CHOOSE c \in Contents : \A i \in 1..Len(pages) : pages[i] = Page(c, i))
    ELSE Torn

\* lines 45-62: the checks, the file name, the start of the copy
BeginBackup(compress, t) ==
    /\ pc = "idle"
    /\ db # NoFile
    /\ pc' = "copying"
    /\ now' = t
    /\ snap' = db
    /\ copied' = <<>>
    /\ seen' = {db}
    /\ last' = [Result("create_backup") EXCEPT !.compress = compress]
    /\ UNCHANGED <<db, dir, seed, hist, faults>>

\* line 62, one page
CopyPage ==
    /\ pc = "copying"
    /\ Len(copied) < MaxPages
    /\ copied' = Append(copied, PageRead(snap, db, Len(copied) + 1))
    /\ UNCHANGED <<now, db, dir, seed, last, hist, faults, pc, snap, seen>>

\* lines 64-92: the connections close; compression; the result
FinishBackup ==
    /\ pc = "copying"
    /\ Len(copied) = MaxPages
    /\ LET backup_filename == get_backup_filename(now)
           written == WriteFile(dir, backup_filename, Assemble(copied), now)
       IN  /\ dir' = IF last.compress
                     THEN RemoveFile(WriteFile(written, AddGz(backup_filename),
                                               Gzip(written[backup_filename].data), now),
                                     backup_filename)
                     ELSE written
           /\ last' = [last EXCEPT !.ok = TRUE,
                          !.filename = IF last.compress THEN AddGz(backup_filename)
                                       ELSE backup_filename]
    /\ pc' = "done"
    /\ UNCHANGED <<now, db, seed, hist, faults, snap, copied, seen>>

\* the caller has the result; the next call can start
ReturnBackup ==
    /\ pc = "done"
    /\ pc' = "idle"
    /\ snap' = NoFile
    /\ copied' = <<>>
    /\ seen' = {}
    /\ last' = Result("returned")
    /\ UNCHANGED <<now, db, dir, seed, hist, faults>>

\* another process commits a transaction to the live database
Commit(c) ==
    /\ db # c
    /\ db' = c
    /\ seen' = IF pc = "copying" THEN seen \cup {c} ELSE seen
    /\ UNCHANGED <<now, dir, seed, last, hist, faults, pc, snap, copied>>

InitSnap ==
    /\ now = 0
    /\ dir = InitDir(0)
    /\ hist = HistOther
    /\ db \in Contents
    /\ seed = NoFile
    /\ last = Result("init")
    /\ faults = 0
    /\ pc = "idle"
    /\ snap = NoFile
    /\ copied = <<>>
    /\ seen = {}

NextSnap ==
    \/ \E compress \in BOOLEAN, t \in Readings : BeginBackup(compress, t)
    \/ CopyPage
    \/ FinishBackup
    \/ ReturnBackup
    \/ \E c \in Contents : Commit(c)

SpecSnap == InitSnap /\ [][NextSnap]_vars

-----------------------------------------------------------------------------
(* The calls of backup.py that take or manage backups, without            *)
(* restore_backup: create_backup, create_sql_dump, rotate_backups,          *)
(* run_daily_backup and list_backups, between the application's writes.     *)

NextFrame ==
    \/ \E compress \in BOOLEAN, t \in Readings, fault \in CreateFaults :
          CreateBackup(compress, t, fault)
    \/ \E t \in Readings, fault \in DumpFaults : CreateSqlDump(t, fault)
    \/ \E backup_files \in NewestFirst(dir, BinarySnapshots(dir)) :
          \E failAt \in 0..Len(Excess(backup_files)) :
             RotateBackups(backup_files, failAt)
    \/ \E t \in Readings, fault \in CreateFaults, failAt \in 0..MaxExcess :
          RunDailyBackup(t, fault, failAt)
    \/ \E backups \in NewestFirst(dir, {n \in DOMAIN dir : IsBackupFile(n)}) :
          \E raised \in BOOLEAN : ListBackups(backups, raised)
    \/ \E c \in Contents : WriteDb(c)

SpecFrame == Init /\ [][NextFrame]_vars

-----------------------------------------------------------------------------
(* Properties *)

\* what a snapshot artifact holds once it is decompressed
Payload(data) == IF CanGunzip(data) THEN Gunzip(data) ELSE data

HasRows(d) == IsDatabase(d) /\ d.schema /\ d.rows >= 1

DistinctMtimes(d) ==
    \A a, b \in BinarySnapshots(d) : a # b => d[a].mtime # d[b].mtime

\* C1: after N successful create_backup calls (the initial snapshots counted)
\* followed by one successful rotate_backups, exactly min(N, MAX_BACKUPS)
\* binary snapshots remain, and none of them is older than a removed one.
C1_RotationBound ==
    (hist.phase = "rotated" /\ last.op = "rotate_backups" /\ last.ok)
        => /\ Cardinality(BinarySnapshots(dir)) = Min(hist.n, MAX_BACKUPS)
           /\ \A k \in BinarySnapshots(dir) :
                 \A i \in 1..Len(last.removed) : last.removed[i].ts <= k.ts

\* C2: restore_backup of the file name that the successful create_backup
\* just before it returned leaves the live database as it was.
C2_RestoreRoundTrip ==
    [][(/\ last.op = "create_backup" /\ last.ok
        /\ last'.op = "restore_backup" /\ last'.arg = last.filename)
          => db' = db]_vars

\* C3: when restore_backup(f) returns success, the live database holds what
\* the artifact f held when restore_backup was called.
C3_RestoreAppliesArtifact ==
    [][(last'.op = "restore_backup" /\ last'.ok)
          => db' = Payload(dir[last'.arg].data)]_vars

\* C4: restore_backup(f) for a name f that is not in the backup directory
\* fails and changes neither the live database nor the backup directory.
C4_MissingBackupMutatesNothing ==
    [][(last'.op = "restore_backup" /\ ~Exists(dir, last'.arg))
          => (~last'.ok /\ db' = db /\ dir' = dir)]_vars

C4_Witness ==
    /\ last.op = "restore_backup"
    /\ last.error = "not_found"
    /\ ~Exists(dir, last.arg)
    /\ IsDatabase(db)
    /\ BinarySnapshots(dir) # {}

\* C5: run_restore_if_needed leaves a live database whose break_logs holds
\* at least one row as it is, whatever the emptiness query does and whether
\* or not the seed export exists.
C5_BootstrapKeepsData ==
    [][(last'.op = "run_restore_if_needed" /\ HasRows(db)) => db' = db]_vars

C7_DumpsNeverDeleted ==
    [][/\ \A n \in SqlDumps(dir) : Exists(dir', n)
       /\ (last'.op = "rotate_backups" /\ last'.ok)
             => last'.total = Cardinality({n \in DOMAIN dir : n.kind # "sql"})
       /\ last'.op \in {"rotate_backups", "run_daily_backup"}
             => \A i \in 1..Len(last'.attempted) : last'.attempted[i].kind # "sql"]_vars

C7_Witness ==
    /\ last.op \in {"rotate_backups", "run_daily_backup"}
    /\ Len(last.removed) > 0
    /\ SqlDumps(dir) # {}

\* C8: when an os.remove fails during rotate_backups, every file in excess
\* of MAX_BACKUPS has still been attempted, and the result lists the files
\* that were removed.
C8_DeletionFailureContinues ==
    [][(last'.op = "rotate_backups" /\ ~last'.ok)
          => /\ Len(last'.attempted) = Cardinality(BinarySnapshots(dir)) - MAX_BACKUPS
             /\ Range(last'.removed) = DOMAIN dir \ DOMAIN dir']_vars

\* C9: a successful rotate_backups over n binary snapshots with distinct
\* modification times removes exactly the max(0, n - MAX_BACKUPS) oldest,
\* changes no other file, and reports total_backups = n,
\* kept = min(n, MAX_BACKUPS) and the removed names.
C9_RotateRemovesOldest ==
    [][(last'.op = "rotate_backups" /\ last'.ok /\ DistinctMtimes(dir))
          => LET n == Cardinality(BinarySnapshots(dir))
                 gone == DOMAIN dir \ DOMAIN dir'
             IN  /\ last'.total = n
                 /\ last'.kept = Min(n, MAX_BACKUPS)
                 /\ Len(last'.removed) = n - last'.kept
                 /\ Range(last'.removed) = gone
                 /\ Cardinality(gone) = n - last'.kept
                 /\ gone \subseteq BinarySnapshots(dir)
                 /\ \A g \in gone : \A k \in BinarySnapshots(dir') :
                       dir[g].mtime < dir[k].mtime
                 /\ \A m \in DOMAIN dir' : Exists(dir, m) /\ dir'[m] = dir[m]]_vars

C9_Witness ==
    /\ last.op = "rotate_backups"
    /\ last.ok
    /\ last.total = MAX_BACKUPS + 3
    /\ Len(last.removed) = 3
    /\ Cardinality(BinarySnapshots(dir)) = MAX_BACKUPS
    /\ \A a, b \in BinarySnapshots(dir) \cup Range(last.removed) : a # b => a.ts # b.ts

\* C10: the artifact create_backup produces holds the committed content the
\* live database had at one moment of the call, also when another process
\* commits while the pages are copied.
C10_SnapshotConsistent ==
    pc = "done" => /\ last.ok
                   /\ Exists(dir, last.filename)
                   /\ Payload(dir[last.filename].data) \in seen

C10_Witness ==
    /\ pc = "done"
    /\ Cardinality(seen) >= 2
    /\ Payload(dir[last.filename].data) # db

\* C11: run_daily_backup takes the snapshot first and rotates second, also
\* when the snapshot failed, and returns both results: a successful rotation
\* leaves at most MAX_BACKUPS binary snapshots and has counted the files the
\* snapshot attempt left; a snapshot that succeeded is counted, is still in
\* the directory and is not among the removed files, no file being newer.
C11_DailySnapshotThenRotation ==
    [][(last'.op = "run_daily_backup" /\ last'.rotation)
          => /\ Cardinality(BinarySnapshots(dir')) <= MAX_BACKUPS
             /\ last'.total = Cardinality(BinarySnapshots(dir')) + Len(last'.removed)
             /\ (last'.ok /\ \A n \in BinarySnapshots(dir) : dir[n].mtime <= now')
                   => /\ last'.filename = AddGz(get_backup_filename(now'))
                      /\ Exists(dir', last'.filename)
                      /\ \A i \in 1..Len(last'.removed) :
                            last'.removed[i] # last'.filename
                      /\ last'.total =
                            Cardinality((BinarySnapshots(dir) \cup {last'.filename})
                                           \ {StripGz(last'.filename)})]_vars

C11_Witness ==
    /\ last.op = "run_daily_backup"
    /\ last.ok
    /\ last.rotation
    /\ last.total = MAX_BACKUPS + 3
    /\ Len(last.removed) = 3
    /\ Exists(dir, last.filename)

\* C12: when the live database file is absent, create_backup and
\* create_sql_dump return a failure result, leave the backup directory as it
\* was and do not create the live database file.
C12_AbsentSourceWritesNothing ==
    [][(last'.op \in {"create_backup", "create_sql_dump"} /\ db = NoFile)
          => (~last'.ok /\ dir' = dir /\ db' = NoFile)]_vars

C12_Witness ==
    /\ last.op \in {"create_backup", "create_sql_dump"}
    /\ last.error = "not_found"
    /\ ~last.ok
    /\ db = NoFile
    /\ dir = InitDir(MaxInit)

\* C13: list_backups changes no file and always returns a list; when no
\* step of the listing raises, the list has one record for every file of the
\* backup directory, binary snapshot, compressed snapshot or text dump, the
\* newest first by modification time, and it is empty for a directory
\* without artifacts.
C13_ListBackupsComplete ==
    [][(last'.op = "list_backups")
          => /\ dir' = dir
             /\ db' = db
             /\ last'.ok
             /\ last'.error = "none"
                   => /\ Range(last'.backups) = DOMAIN dir
                      /\ Len(last'.backups) = Cardinality(DOMAIN dir)
                      /\ \A i, j \in 1..Len(last'.backups) :
                            i < j => dir[last'.backups[i]].mtime
                                        >= dir[last'.backups[j]].mtime]_vars

C13_Witness ==
    /\ last.op = "list_backups"
    /\ last.error = "none"
    /\ Len(last.backups) > MAX_BACKUPS
    /\ \E i, j, k \in 1..Len(last.backups) :
          /\ last.backups[i].kind = "sql"
          /\ last.backups[j].kind = "gz"
          /\ last.backups[k].kind = "db"
          /\ dir[last.backups[i]].mtime > dir[last.backups[Len(last.backups)]].mtime

\* C14: when restore_backup, called with a .gz source that exists, returns,
\* the scratch file it decompressed the source into is gone, whether the
\* copy into the live database succeeded or failed.
C14_ScratchRemoved ==
    [][(/\ last'.op = "restore_backup"
        /\ Exists(dir, last'.arg)
        /\ EndsWithGz(last'.arg))
          => ~Exists(dir', StripGz(last'.arg))]_vars

\* C15: every file that is in the backup directory when restore_backup is
\* called is there with the same content when it returns, on success and
\* on failure.
C15_RestoreKeepsArtifacts ==
    [][(last'.op = "restore_backup")
          => \A n \in DOMAIN dir : Exists(dir', n) /\ dir'[n].data = dir[n].data]_vars

\* C16: create_backup(compress=True) removes the uncompressed copy only
\* after the compressed file is completely written: when the call returns,
\* the uncompressed copy is in the backup directory, or the compressed file
\* is there and holds the whole of the live database; after a compression
\* that failed, the uncompressed copy is there.
C16_CopyKeptUntilCompressed ==
    [][(last'.op = "create_backup" /\ last'.compress /\ db # NoFile)
          => LET backup_filename == get_backup_filename(now')
                 compressed_name == AddGz(backup_filename)
             IN  /\ \/ Exists(dir', backup_filename)
                    \/ /\ Exists(dir', compressed_name)
                       /\ dir'[compressed_name].data = Gzip(db)
                       /\ last'.ok
                 /\ ~last'.ok => Exists(dir', backup_filename)]_vars

C16_Witness ==
    /\ last.op = "create_backup"
    /\ last.compress
    /\ ~last.ok
    /\ last.error = "exception"
    /\ Exists(dir, AddGz(get_backup_filename(now)))
    /\ dir[AddGz(get_backup_filename(now))].data = Torn
    /\ Exists(dir, get_backup_filename(now))
    /\ dir[get_backup_filename(now)].data = db

\* the state a create_backup(compress=True) leaves whose copy of the live
\* database was written and whose compression failed
CompressionFailedAfterCopy ==
    /\ last.op = "create_backup"
    /\ last.compress
    /\ Exists(dir, get_backup_filename(now))
    /\ dir[get_backup_filename(now)].data = db
    /\ Exists(dir, AddGz(get_backup_filename(now)))
    /\ dir[AddGz(get_backup_filename(now))].data = Torn

\* C17 (as stated): when the copy of the live database succeeds and the
\* compression then fails, create_backup's result reports success and
\* names the uncompressed artifact that was left.
C17_CompressionFailureIsSuccess ==
    CompressionFailedAfterCopy
        => (last.ok /\ last.filename = get_backup_filename(now))

\* C17 (amended): when the copy of the live database succeeds and the
\* compression then fails, create_backup's result reports failure with an
\* error and names no artifact, and the uncompressed artifact is left.
C17_CompressionFailureIsFailure ==
    CompressionFailedAfterCopy
        => (~last.ok /\ last.error = "exception" /\ last.filename = NoName)

C17_Witness ==
    /\ CompressionFailedAfterCopy
    /\ ~last.ok
    /\ BinarySnapshots(dir) # {get_backup_filename(now), AddGz(get_backup_filename(now))}

\* C18: the safety snapshot of restore_backup is taken before the live
\* database is written: whenever the result names a pre_restore_backup, a
\* file of that name is in the backup directory when the call returns and
\* holds the content the live database had before the copy into it.
C18_SafetySnapshotBeforeApply ==
    [][(last'.op = "restore_backup" /\ last'.pre # NoName)
          => /\ last'.ok
             /\ last'.pre = AddGz(get_backup_filename(now'))
             /\ Exists(dir', last'.pre)
             /\ Payload(dir'[last'.pre].data) = db]_vars

C18_Witness ==
    /\ last.op = "restore_backup"
    /\ last.ok
    /\ last.pre # NoName
    /\ last.pre # last.arg
    /\ Exists(dir, last.pre)
    /\ IsDatabase(Payload(dir[last.pre].data))
    /\ Payload(dir[last.pre].data) # db
    /\ db = Payload(dir[last.arg].data)

\* C19: a pre-restore safety snapshot that fails does not end the restore:
\* with the live database file absent and no step raising, restore_backup of
\* a sound artifact returns success, the live database holds the artifact's
\* content, and the result names no pre_restore_backup; and every successful
\* result whose safety snapshot failed names no pre_restore_backup.
C19_RestoreWithoutSafetySnapshot ==
    [][(last'.op = "restore_backup" /\ Exists(dir, last'.arg))
          => LET compressed_name == AddGz(get_backup_filename(now'))
             IN  /\ (/\ db = NoFile
                     /\ faults' = faults
                     /\ IsDatabase(Payload(dir[last'.arg].data)))
                       => /\ last'.ok
                          /\ last'.pre = NoName
                          /\ db' = Payload(dir[last'.arg].data)
                 /\ (/\ last'.ok
                     /\ \/ db = NoFile
                        \/ ~Exists(dir', compressed_name)
                        \/ dir'[compressed_name].data = Torn)
                       => last'.pre = NoName]_vars

C19_Witness ==
    /\ last.op = "restore_backup"
    /\ last.ok
    /\ last.pre = NoName
    /\ Exists(dir, last.arg)
    /\ db = Payload(dir[last.arg].data)
    /\ ~Exists(dir, AddGz(get_backup_filename(now)))
    /\ faults = 0

\* C20: when the decompression of a .gz source fails, restore_backup
\* returns a failure result, the live database is as it was before the call
\* (absent if it was absent), and the source is still in the backup
\* directory for another attempt.
C20_DecompressionFailureKeepsLive ==
    [][(/\ last'.op = "restore_backup"
        /\ Exists(dir, last'.arg)
        /\ EndsWithGz(last'.arg)
        /\ Exists(dir', StripGz(last'.arg))
        /\ \/ dir'[StripGz(last'.arg)].data = Torn
           \/ /\ dir'[StripGz(last'.arg)].data = Blank
              /\ Exists(dir', last'.arg)
              /\ ~CanGunzip(dir'[last'.arg].data))
          => (~last'.ok /\ db' = db /\ Exists(dir', last'.arg))]_vars

C20_Witness ==
    /\ last.op = "restore_backup"
    /\ ~last.ok
    /\ last.error = "exception"
    /\ EndsWithGz(last.arg)
    /\ Exists(dir, last.arg)
    /\ Exists(dir, StripGz(last.arg))
    /\ dir[StripGz(last.arg)].data = Torn
    /\ db = NoFile

\* the fields of the dict restore_backup returns
ReturnedOutcome(r) == [ok |-> r.ok, error |-> r.error, pre |-> r.pre]

\* C21: the outcome restore_backup returns when the copy into the live
\* database fails differs from the outcome it returns when the backup is
\* not found and from the one it returns when the decompression fails.
C21_ApplyFailureDistinct ==
    \A a \in {n \in RestoreArgs : Exists(dir, n)} :
       LET apply_failed == restore_backup(dir, db, a, now, "apply")
       IN  ~apply_failed.ok
              => /\ \A b \in {n \in RestoreArgs : ~Exists(dir, n)} :
                       ReturnedOutcome(apply_failed)
                          # ReturnedOutcome(restore_backup(dir, db, b, now, "none"))
                 /\ \A b \in {n \in RestoreArgs : Exists(dir, n) /\ EndsWithGz(n)} :
                       ReturnedOutcome(apply_failed)
                          # ReturnedOutcome(restore_backup(dir, db, b, now, "decompress"))

\* C22: when the database is judged empty and the seed export exists,
\* run_restore_if_needed reports the restoration as successful only if the
\* live database is then the fresh database the seed statements build and
\* its break_logs holds at least one row.
C22_SeedRestoreVerified ==
    [][(/\ last'.op = "run_restore_if_needed"
        /\ last'.judged
        /\ seed # NoFile
        /\ last'.ok)
          => (db' = ExecuteScript(seed) /\ HasRows(db'))]_vars

\* C23: when the database is judged empty and no seed export exists,
\* run_restore_if_needed returns without a restoration and leaves the files
\* as they were: a database file that exists is neither removed nor
\* changed, and none is created.
C23_NoSeedChangesNothing ==
    [][(last'.op = "run_restore_if_needed" /\ last'.judged /\ seed = NoFile)
          => (~last'.ok /\ db' = db /\ seed' = seed /\ dir' = dir)]_vars

C23_Witness ==
    /\ last.op = "run_restore_if_needed"
    /\ last.judged
    /\ ~last.ok
    /\ seed = NoFile
    /\ db = Torn

\* C24: in one process, no call of run_restore_if_needed after the first
\* judges the database empty or changes the live database: the check and
\* the delete-and-reseed are done by at most one call.
C24_BootstrapOncePerProcess ==
    [][(last'.op = "run_restore_if_needed" /\ hist.n >= 1)
          => (~last'.judged /\ db' = db)]_vars

\* C25: a create_backup that returns failure leaves no partial file under a
\* binary-snapshot name: every binary snapshot in the backup directory after
\* the call was there before it, unchanged, or is a complete image of the
\* live database.
C25_FailedBackupLeavesNoPartialFile ==
    [][(last'.op = "create_backup" /\ ~last'.ok)
          => \A n \in BinarySnapshots(dir') :
                \/ Exists(dir, n) /\ dir'[n] = dir[n]
                \/ Payload(dir'[n].data) = db]_vars

\* C26: create_backup, create_sql_dump, rotate_backups, list_backups and
\* run_daily_backup leave the live database as it was, whether they succeed
\* or fail: its file is there exactly if it was there before, with the same
\* content.
C26_BackupCallsKeepLive ==
    [][(last'.op \in {"create_backup", "create_sql_dump", "rotate_backups",
                      "list_backups", "run_daily_backup"})
          => db' = db]_vars

C26_Witness ==
    /\ last.op = "run_daily_backup"
    /\ ~last.ok
    /\ last.error = "exception"
    /\ last.rotation
    /\ Len(last.removed) > 0
    /\ db = DbImage(TRUE, MaxRows)

=============================================================================
